---- MODULE Spec2Model ----
(***************************************************************************)
(* Route path registry of the frontend (src/frontend/src/constants/paths.ts)*)
(*                                                                         *)
(* The module exports two object literals, protectedPaths and publicPaths, *)
(* whose properties map a route identifier to a path template.  The model  *)
(* keeps the two exported objects as state (ordered own properties, as a   *)
(* JavaScript object keeps them) and lets consumers act on them: property  *)
(* reads, a JSON round trip, route matching by the router, and the writes  *)
(* that an unfrozen exported object accepts.                               *)
(***************************************************************************)
EXTENDS Integers, Sequences, FiniteSets, TLC

VARIABLES protectedPaths, publicPaths, last, writes

vars == <<protectedPaths, publicPaths, last, writes>>

(***************************************************************************)
(* Bounds of the model.                                                    *)
(***************************************************************************)
\* longest concrete URL path the router is asked to match, in segments
MaxSegments == 3
\* number of writes a consumer performs on the exported objects
MaxWrites == 2

(***************************************************************************)
(* JavaScript values that occur: strings, undefined, inherited functions.  *)
(***************************************************************************)
Str(s) == [type |-> "string", value |-> s]

Undefined == [type |-> "undefined"]

Fn(n) == [type |-> "function", name |-> n]

\* one property of an object: its key and its value
Prop(k, v) == [key |-> k, value |-> v]

(***************************************************************************)
(* The two object literals, property by property, in source order.         *)
(***************************************************************************)
protectedPathsLiteral ==
    << Prop("dashboard",        Str("/")),
       Prop("collections",      Str("/collections")),
       Prop("collectionDetail", Str("/collections/:readable_id")),
       Prop("collectionNew",    Str("/collections/:readable_id/new")),
       Prop("apiKeys",          Str("/api-keys")),
       Prop("authProviders",    Str("/auth-providers")),
       Prop("whiteLabel",       Str("/white-label")),
       Prop("whiteLabelTab",    Str("/white-label/:id")),
       Prop("whiteLabelCreate", Str("/white-label/create")),
       Prop("whiteLabelDetail", Str("/white-label/:id")),
       Prop("whiteLabelEdit",   Str("/white-label/:id/edit")),
       Prop("authCallback",     Str("/auth/callback/:short_name")) >>

publicPathsLiteral ==
    << Prop("login",          Str("/login")),
       Prop("callback",       Str("/callback")),
       Prop("semanticMcp",    Str("/semantic-mcp")),
       Prop("onboarding",     Str("/onboarding")),
       Prop("billingSuccess", Str("/billing/success")),
       Prop("billingCancel",  Str("/billing/cancel")) >>

(***************************************************************************)
(* Objects: a sequence of own properties with pairwise distinct keys, in   *)
(* insertion order.                                                        *)
(***************************************************************************)
Keys(obj) == {obj[i].key : i \in 1..Len(obj)}

Values(obj) == {obj[i].value : i \in 1..Len(obj)}

Pairs(obj) == {<<obj[i].key, obj[i].value>> : i \in 1..Len(obj)}

IndexOf(obj, k) == CHOOSE i \in 1..Len(obj) : obj[i].key = k

\* obj[k] = v: an own property is overwritten in place, a new one is appended
DefineProperty(obj, k, v) ==
    IF k \in Keys(obj)
    THEN [obj EXCEPT ![IndexOf(obj, k)].value = v]
    ELSE Append(obj, Prop(k, v))

\* delete obj[k]
DeleteProperty(obj, k) == SelectSeq(obj, LAMBDA e : e.key # k)

\* evaluation of an object literal: the properties are defined left to right,
\* a repeated key overwrites the earlier value
RECURSIVE ObjectLiteral(_)
ObjectLiteral(props) ==
    IF props = <<>>
    THEN <<>>
    ELSE LET n == Len(props)
         IN  DefineProperty(ObjectLiteral(SubSeq(props, 1, n - 1)),
                            props[n].key, props[n].value)

\* the members every plain object inherits from Object.prototype
ObjectPrototype ==
    {"constructor", "hasOwnProperty", "isPrototypeOf", "propertyIsEnumerable",
     "toLocaleString", "toString", "valueOf"}

\* the literal `props` with the value of property k changed to v
WithValue(props, k, v) ==
    [i \in DOMAIN props |-> IF props[i].key = k THEN Prop(k, v) ELSE props[i]]

\* obj[k] as an absent key would behave under a registry that raises
GetOrThrow(obj, k) ==
    IF k \in Keys(obj)
    THEN obj[IndexOf(obj, k)].value
    ELSE [type |-> "error", name |-> "NotFoundError"]

\* obj[k], the property read: an own property, else the member inherited from
\* Object.prototype, else undefined; no error is raised
Get(obj, k) ==
    IF k \in Keys(obj)
    THEN obj[IndexOf(obj, k)].value
    ELSE IF k \in ObjectPrototype THEN Fn(k) ELSE Undefined

\* variants of the protected table with one pattern changed
protectedPathsTypo ==
    ObjectLiteral(WithValue(protectedPathsLiteral, "apiKeys", Str("/api-key")))

protectedPathsTabRenamed ==
    ObjectLiteral(WithValue(protectedPathsLiteral, "whiteLabelTab", Str("/white-label/:tab")))

protectedPathsCatchAll ==
    ObjectLiteral(WithValue(protectedPathsLiteral, "collectionDetail", Str("/:readable_id")))

protectedPathsThirdDuplicate ==
    ObjectLiteral(WithValue(protectedPathsLiteral, "whiteLabelCreate", Str("/white-label/:id")))

protectedPathsUnset ==
    ObjectLiteral(WithValue(protectedPathsLiteral, "whiteLabelTab", Undefined))

\* export const protectedPaths = { ... }
protectedPathsExport == ObjectLiteral(protectedPathsLiteral)

\* variants of the public table with one pattern changed
publicPathsTypo ==
    ObjectLiteral(WithValue(publicPathsLiteral, "billingCancel", Str("/billing/cancelled")))

publicPathsNoSlash ==
    ObjectLiteral(WithValue(publicPathsLiteral, "semanticMcp", Str("semantic-mcp")))

publicPathsShared ==
    ObjectLiteral(WithValue(publicPathsLiteral, "callback", Str("/auth/callback/:short_name")))

\* export const publicPaths = { ... }
publicPathsExport == ObjectLiteral(publicPathsLiteral)

(***************************************************************************)
(* The state after the module has been evaluated.                          *)
(***************************************************************************)
Tables == {"protectedPaths", "publicPaths"}

Obj(t) == IF t = "protectedPaths" THEN protectedPaths ELSE publicPaths

\* no operation of a consumer is in progress
Idle == [op |-> "none"]

Init ==
    /\ protectedPaths = protectedPathsExport
    /\ publicPaths = publicPathsExport
    /\ last = Idle
    /\ writes = 0

(***************************************************************************)
(* Reads by a consumer.                                                    *)
(***************************************************************************)
\* a name that is a key of neither table nor inherited
AbsentNames == {"settings"}

\* the names a consumer may look up
Identifiers ==
    Keys(protectedPathsExport) \cup Keys(publicPathsExport)
        \cup ObjectPrototype \cup AbsentNames

\* table[id], e.g. protectedPaths.dashboard
Lookup(ids) ==
    /\ last = Idle
    /\ \E t \in Tables, id \in ids :
           last' = [op |-> "get", table |-> t, key |-> id,
                    result |-> Get(Obj(t), id)]
    /\ UNCHANGED <<protectedPaths, publicPaths, writes>>

(***************************************************************************)
(* The router: a pattern is a route-matching template.  Literal segments   *)
(* are matched exactly, a ":name" segment binds any non-empty segment.     *)
(***************************************************************************)
Char(s, i) == SubSeq(s, i, i)

\* the position of the first "/" of s at or after i, Len(s) + 1 if none
RECURSIVE NextSlash(_, _)
NextSlash(s, i) ==
    IF i > Len(s) \/ Char(s, i) = "/" THEN i ELSE NextSlash(s, i + 1)

\* the "/"-separated segments of s from position i on
RECURSIVE SplitFrom(_, _)
SplitFrom(s, i) ==
    LET j == NextSlash(s, i)
    IN  IF j > Len(s)
        THEN <<SubSeq(s, i, Len(s))>>
        ELSE <<SubSeq(s, i, j - 1)>> \o SplitFrom(s, j + 1)

\* the segments of a path or template: what follows its leading "/"
Segments(s) == SplitFrom(s, IF Len(s) > 0 /\ Char(s, 1) = "/" THEN 2 ELSE 1)

IsParam(seg) == Len(seg) > 0 /\ Char(seg, 1) = ":"

\* the segments p of a concrete path against a template
Matches(p, template) ==
    LET q == Segments(template)
    IN  /\ Len(p) = Len(q)
        /\ \A i \in 1..Len(q) :
               IF IsParam(q[i]) THEN p[i] # "" ELSE p[i] = q[i]

\* the routes of table t (an object) whose template matches path
Routes(t, obj, path) ==
    LET p == Segments(path)
    IN  {[table |-> t, key |-> obj[i].key] :
            i \in {n \in 1..Len(obj) :
                      /\ obj[n].value.type = "string"
                      /\ Matches(p, obj[n].value.value)}}

\* the literal segments of the registered templates
LiteralSegments ==
    LET all == protectedPathsExport \o publicPathsExport
    IN  UNION {{Segments(all[i].value.value)[n] :
                   n \in {m \in 1..Len(Segments(all[i].value.value)) :
                             ~IsParam(Segments(all[i].value.value)[m])}} :
               i \in {n \in 1..Len(all) : all[n].value.type = "string"}}

\* segments of concrete paths: the literals, an empty segment, and a value a
\* parameter may take
SegmentAlphabet == LiteralSegments \cup {"", "42"}

RECURSIVE JoinPath(_)
JoinPath(segs) ==
    IF segs = <<>> THEN "" ELSE "/" \o Head(segs) \o JoinPath(Tail(segs))

\* the concrete URL paths presented to the router
Paths ==
    {JoinPath(segs) :
        segs \in UNION {[1..n -> SegmentAlphabet] : n \in 1..MaxSegments}}

\* the router resolves a concrete path against both tables
Match ==
    /\ last = Idle
    /\ \E path \in Paths :
           last' = [op |-> "match", path |-> path,
                    result |-> Routes("protectedPaths", protectedPaths, path)
                                   \cup Routes("publicPaths", publicPaths, path)]
    /\ UNCHANGED <<protectedPaths, publicPaths, writes>>

(***************************************************************************)
(* Serialization of a table to JSON text and back.                         *)
(***************************************************************************)
Quote == "\""

Backslash == "\\"

\* the characters of s with quotes and backslashes escaped
RECURSIVE Escape(_)
Escape(s) ==
    IF s = ""
    THEN ""
    ELSE LET c == Char(s, 1)
         IN  (IF c = Quote \/ c = Backslash THEN Backslash \o c ELSE c)
                 \o Escape(SubSeq(s, 2, Len(s)))

Quoted(s) == Quote \o Escape(s) \o Quote

\* the members of the JSON text: a property whose value is not a string
\* (undefined, a function) is left out
RECURSIVE Members(_)
Members(obj) ==
    IF obj = <<>>
    THEN <<>>
    ELSE LET e == Head(obj)
         IN  (IF e.value.type = "string"
              THEN <<Quoted(e.key) \o ":" \o Quoted(e.value.value)>>
              ELSE <<>>) \o Members(Tail(obj))

RECURSIVE JoinComma(_)
JoinComma(ms) ==
    IF ms = <<>> THEN ""
    ELSE IF Len(ms) = 1 THEN Head(ms)
    ELSE Head(ms) \o "," \o JoinComma(Tail(ms))

\* JSON.stringify(obj)
Stringify(obj) == "{" \o JoinComma(Members(obj)) \o "}"

\* the string literal of text whose first character is at i (after the opening
\* quote): its value and the position after its closing quote
RECURSIVE ReadString(_, _, _)
ReadString(text, i, acc) ==
    LET c == Char(text, i)
    IN  IF c = Quote THEN [value |-> acc, next |-> i + 1]
        ELSE IF c = Backslash
             THEN ReadString(text, i + 2, acc \o Char(text, i + 1))
             ELSE ReadString(text, i + 1, acc \o c)

\* the members of text from the opening quote of a key at i, added to obj
RECURSIVE ReadMembers(_, _, _)
ReadMembers(text, i, obj) ==
    LET k == ReadString(text, i + 1, "")
        v == ReadString(text, k.next + 2, "")
        o == DefineProperty(obj, k.value, Str(v.value))
    IN  IF Char(text, v.next) = ","
        THEN ReadMembers(text, v.next + 1, o)
        ELSE o

\* JSON.parse(text), text a flat object of string members
Parse(text) ==
    IF Char(text, 2) = "}" THEN <<>> ELSE ReadMembers(text, 2, <<>>)

\* JSON.parse(JSON.stringify(table))
RoundTrip ==
    /\ last = Idle
    /\ \E t \in Tables :
           last' = [op |-> "roundtrip", table |-> t,
                    text |-> Stringify(Obj(t)),
                    result |-> Parse(Stringify(Obj(t)))]
    /\ UNCHANGED <<protectedPaths, publicPaths, writes>>

(***************************************************************************)
(* Writes by a consumer.  The exported bindings are const, the objects     *)
(* they name are not frozen: their properties accept assignment, addition  *)
(* and deletion.                                                           *)
(***************************************************************************)
\* values a consumer writes
WrittenValues == {Str("/"), Str("/login"), Str("/admin")}

\* names a consumer adds
AddedNames == {"settings", "admin"}

Store(t, obj) ==
    /\ protectedPaths' = IF t = "protectedPaths" THEN obj ELSE protectedPaths
    /\ publicPaths' = IF t = "publicPaths" THEN obj ELSE publicPaths
    /\ writes' = writes + 1

\* table.key = v on an existing property
Assign(t, k, v) ==
    /\ last = Idle
    /\ writes < MaxWrites
    /\ k \in Keys(Obj(t))
    /\ Store(t, DefineProperty(Obj(t), k, v))
    /\ UNCHANGED last

\* table[key] = v on a name that is no property yet
Add(t, k, v) ==
    /\ last = Idle
    /\ writes < MaxWrites
    /\ k \notin Keys(Obj(t))
    /\ Store(t, DefineProperty(Obj(t), k, v))
    /\ UNCHANGED last

\* delete table.key
Delete(t, k) ==
    /\ last = Idle
    /\ writes < MaxWrites
    /\ k \in Keys(Obj(t))
    /\ Store(t, DeleteProperty(Obj(t), k))
    /\ UNCHANGED last

\* the consumer has used the result of its operation
Return ==
    /\ last # Idle
    /\ last' = Idle
    /\ UNCHANGED <<protectedPaths, publicPaths, writes>>

(***************************************************************************)
(* Specifications.                                                         *)
(***************************************************************************)
\* the registry as its consumers use it: the router, the auth guard and the
\* pages read the two tables
Next ==
    \/ Lookup(Identifiers)
    \/ RoundTrip
    \/ Match
    \/ Return

Spec == Init /\ [][Next]_vars

\* every operation the exported objects accept from a consumer
ConsumerNext ==
    \/ Lookup(Identifiers \cup AddedNames)
    \/ \E t \in Tables, k \in Identifiers, v \in WrittenValues : Assign(t, k, v)
    \/ \E t \in Tables, k \in AddedNames, v \in WrittenValues : Add(t, k, v)
    \/ \E t \in Tables, k \in Identifiers : Delete(t, k)
    \/ Return

ConsumerSpec == Init /\ [][ConsumerNext]_vars

(***************************************************************************)
(* Properties of the registry.                                             *)
(***************************************************************************)
\* the own properties of an object as identifier -> pattern pairs
PatternPairs(obj) ==
    {<<obj[i].key, obj[i].value.value>> :
        i \in {n \in 1..Len(obj) : obj[n].value.type = "string"}}

NoRepeatedKey(props) == Cardinality(Keys(props)) = Len(props)

AllStrings(obj) == \A i \in 1..Len(obj) : obj[i].value.type = "string"

\* C1: protectedPaths holds exactly the twelve identifier -> pattern pairs the
\* specification lists and nothing else, and no identifier is written twice in
\* the literal.
C1_ProtectedPathsTable ==
    /\ AllStrings(protectedPaths)
    /\ PatternPairs(protectedPaths) =
           { <<"dashboard", "/">>,
             <<"collections", "/collections">>,
             <<"collectionDetail", "/collections/:readable_id">>,
             <<"collectionNew", "/collections/:readable_id/new">>,
             <<"apiKeys", "/api-keys">>,
             <<"authProviders", "/auth-providers">>,
             <<"whiteLabel", "/white-label">>,
             <<"whiteLabelTab", "/white-label/:id">>,
             <<"whiteLabelCreate", "/white-label/create">>,
             <<"whiteLabelDetail", "/white-label/:id">>,
             <<"whiteLabelEdit", "/white-label/:id/edit">>,
             <<"authCallback", "/auth/callback/:short_name">> }
    /\ Len(protectedPaths) = 12
    /\ NoRepeatedKey(protectedPaths)
    /\ NoRepeatedKey(protectedPathsLiteral)

\* a consumer has read the last property of the protected table
C1_Witness ==
    /\ last.op = "get"
    /\ last.table = "protectedPaths"
    /\ last.key = "authCallback"
    /\ last.result = Str("/auth/callback/:short_name")

\* C2: publicPaths holds exactly the six identifier -> pattern pairs the
\* specification lists and nothing else, and no identifier is written twice in
\* the literal.
C2_PublicPathsTable ==
    /\ AllStrings(publicPaths)
    /\ PatternPairs(publicPaths) =
           { <<"login", "/login">>,
             <<"callback", "/callback">>,
             <<"semanticMcp", "/semantic-mcp">>,
             <<"onboarding", "/onboarding">>,
             <<"billingSuccess", "/billing/success">>,
             <<"billingCancel", "/billing/cancel">> }
    /\ Len(publicPaths) = 6
    /\ NoRepeatedKey(publicPaths)
    /\ NoRepeatedKey(publicPathsLiteral)

\* a consumer has read the last property of the public table
C2_Witness ==
    /\ last.op = "get"
    /\ last.table = "publicPaths"
    /\ last.key = "billingCancel"
    /\ last.result = Str("/billing/cancel")

IsPattern(v) ==
    /\ v.type = "string"
    /\ Len(v.value) > 0
    /\ Char(v.value, 1) = "/"

\* C3: every pattern of either table is a non-empty string whose first
\* character is "/".
C3_PatternsStartWithSlash ==
    /\ \A i \in 1..Len(protectedPaths) : IsPattern(protectedPaths[i].value)
    /\ \A i \in 1..Len(publicPaths) : IsPattern(publicPaths[i].value)

\* a consumer has read a pattern of more than one character
C3_Witness ==
    /\ last.op = "get"
    /\ last.key = "semanticMcp"
    /\ IsPattern(last.result)
    /\ Len(last.result.value) > 1

\* C4 (as claimed): whatever a consumer does to the exported objects, both
\* tables still hold exactly their initial identifier -> pattern pairs.
C4_NeverMutated ==
    /\ Pairs(protectedPaths) = Pairs(protectedPathsExport)
    /\ Pairs(publicPaths) = Pairs(publicPathsExport)

\* C5 (as claimed): a lookup returns the pattern of an identifier that is a key
\* of the table and fails with a NotFoundError for an identifier that is not.
C5_LookupFailsNotFound ==
    last.op = "get" =>
        LET obj == Obj(last.table)
        IN  IF last.key \in Keys(obj)
            THEN <<last.key, last.result>> \in Pairs(obj)
            ELSE last.result = [type |-> "error", name |-> "NotFoundError"]

\* C5 (amended): a lookup returns the pattern of an identifier that is a key of
\* the table; for an identifier that is not, it raises nothing and evaluates to
\* undefined, or to the inherited member when the name is one of
\* Object.prototype.
C5_LookupYieldsUndefined ==
    last.op = "get" =>
        LET obj == Obj(last.table)
        IN  /\ last.result.type # "error"
            /\ IF last.key \in Keys(obj)
               THEN /\ <<last.key, last.result>> \in Pairs(obj)
                    /\ IsPattern(last.result)
               ELSE IF last.key \in ObjectPrototype
                    THEN last.result = Fn(last.key)
                    ELSE last.result = Undefined

\* a consumer has looked up a name that is in neither table
C5_Witness ==
    /\ last.op = "get"
    /\ last.key = "settings"
    /\ last.key \notin Keys(Obj(last.table))
    /\ last.result = Undefined

\* C6: no identifier is a key of both tables and no pattern is a value of both.
C6_TablesDisjoint ==
    /\ Keys(protectedPaths) \cap Keys(publicPaths) = {}
    /\ Values(protectedPaths) \cap Values(publicPaths) = {}

\* a consumer has looked up a public identifier in the protected table
C6_Witness ==
    /\ last.op = "get"
    /\ last.table = "protectedPaths"
    /\ last.key = "login"
    /\ last.key \in Keys(publicPaths)
    /\ last.result = Undefined

\* C7: whiteLabelTab and whiteLabelDetail are two properties of protectedPaths
\* and both are "/white-label/:id".
C7_WhiteLabelDuplicate ==
    /\ {"whiteLabelTab", "whiteLabelDetail"} \subseteq Keys(protectedPaths)
    /\ IndexOf(protectedPaths, "whiteLabelTab")
           # IndexOf(protectedPaths, "whiteLabelDetail")
    /\ Get(protectedPaths, "whiteLabelTab") = Str("/white-label/:id")
    /\ Get(protectedPaths, "whiteLabelDetail") = Str("/white-label/:id")

\* a consumer has read whiteLabelDetail and holds the pattern of whiteLabelTab
C7_Witness ==
    /\ last.op = "get"
    /\ last.table = "protectedPaths"
    /\ last.key = "whiteLabelDetail"
    /\ last.result = Get(protectedPaths, "whiteLabelTab")

\* C8: a table serialized to JSON and parsed back has the same keys and the
\* same value for every key.
C8_JsonRoundTrip ==
    last.op = "roundtrip" =>
        /\ Keys(last.result) = Keys(Obj(last.table))
        /\ Pairs(last.result) = Pairs(Obj(last.table))
        /\ Len(last.result) = Len(Obj(last.table))

\* the protected table has been serialized and parsed back
C8_Witness ==
    /\ last.op = "roundtrip"
    /\ last.table = "protectedPaths"
    /\ Len(last.text) > 2
    /\ Len(last.result) = 12

\* C9: no concrete path matches a template of protectedPaths and a template of
\* publicPaths.
C9_ClassificationUnambiguous ==
    last.op = "match" =>
        ~ \E r1 \in last.result, r2 \in last.result :
              r1.table = "protectedPaths" /\ r2.table = "publicPaths"

\* the router has matched a path whose parameter is bound to the literal of a
\* public route
C9_Witness ==
    /\ last.op = "match"
    /\ last.path = "/collections/login"
    /\ last.result = {[table |-> "protectedPaths", key |-> "collectionDetail"]}

\* the properties of both tables, each with the table it belongs to
AllRoutes ==
    {[table |-> "protectedPaths", key |-> protectedPaths[i].key,
      value |-> protectedPaths[i].value] : i \in 1..Len(protectedPaths)}
        \cup
    {[table |-> "publicPaths", key |-> publicPaths[i].key,
      value |-> publicPaths[i].value] : i \in 1..Len(publicPaths)}

\* C10: two distinct identifiers of the two tables have the same pattern only
\* if they are whiteLabelTab and whiteLabelDetail; publicPaths is injective and
\* protectedPaths has twelve identifiers and eleven distinct patterns.
C10_InjectiveButOnePair ==
    /\ \A r1 \in AllRoutes, r2 \in AllRoutes :
           (r1 # r2 /\ r1.value = r2.value) =>
               /\ r1.table = "protectedPaths"
               /\ r2.table = "protectedPaths"
               /\ {r1.key, r2.key} = {"whiteLabelTab", "whiteLabelDetail"}
    /\ Cardinality(Values(publicPaths)) = Cardinality(Keys(publicPaths))
    /\ Cardinality(Keys(protectedPaths)) = 12
    /\ Cardinality(Values(protectedPaths)) = 11

\* the router has matched a path that only the duplicated pattern matches
C10_Witness ==
    /\ last.op = "match"
    /\ last.path = "/white-label/42"
    /\ last.result = {[table |-> "protectedPaths", key |-> "whiteLabelTab"],
                      [table |-> "protectedPaths", key |-> "whiteLabelDetail"]}

====
